---- MODULE Spec2Model ----
(***************************************************************************)
(* A model of language_bot.py, the vocabulary quiz bot.                    *)
(*                                                                         *)
(* Strings are sequences of one-character strings, so that split(';'),     *)
(* the removal of punctuation and casefold() are computed character by     *)
(* character.  A Python dict is a function whose domain is its set of      *)
(* keys.  The vocabulary entries are Python dicts that are shared by       *)
(* reference between the global `questions` and every user's question      *)
(* list, so they live in a heap (`dicts`) and lists hold their addresses.  *)
(* One handler runs at a time (the dispatcher calls handlers from one      *)
(* thread); an action is one whole handler call.                           *)
(***************************************************************************)
EXTENDS Integers, Sequences, FiniteSets, TLC

VARIABLES
    questions,      \* the global `questions`: set name -> list of dict addresses
    dicts,          \* heap: address -> the vocabulary entry dict stored there
    user_data,      \* context.user_data of each user
    out,            \* the replies sent by the latest handler call, in order
    err,            \* the exception the latest handler call ended with, or "none"
    lastUser,       \* the user whose update the latest handler call handled
    lastEvent,      \* "none", "start", "help" or "text"
    lastText,       \* update.message.text of the latest text update
    nevents,        \* the number of updates handled so far
    correct_answer, \* argument of the latest check_answer call (SpecCmp)
    response,       \* argument of the latest check_answer call (SpecCmp)
    result,         \* what that call returned, "none" before any call
    arg_num_questions,    \* argument of the choose_questions call (SpecSel)
    ret_chosen_questions \* what that call returned, <<>> before the call

vars == <<questions, dicts, user_data, out, err, lastUser, lastEvent, lastText,
          nevents, correct_answer, response, result, arg_num_questions,
          ret_chosen_questions>>

botVars == <<questions, dicts, user_data, out, err, lastUser, lastEvent, lastText,
            nevents>>

cmpVars == <<correct_answer, response, result>>

selVars == <<arg_num_questions, ret_chosen_questions>>

-----------------------------------------------------------------------------
(* The constants of the program.                                           *)

QUIZ_NAME_KEY == "quiz_name"

QUESTIONS_KEY == "questions"

QUESTION_NUM_KEY == "question_num"

NUM_CORRECT_KEY == "correct"

NUM_QUESTIONS == 5

\* the characters that cannot be written inside a TLA+ string
DQUOTE == "dquote"

BACKSLASH == "backslash"

BACKTICK == "backtick"

\* string.punctuation
punctuation ==
    {"!", DQUOTE, "#", "$", "%", "&", "'", "(", ")", "*", "+", ",", "-", ".",
     "/", ":", ";", "<", "=", ">", "?", "@", "[", BACKSLASH, "]", "^", "_",
     BACKTICK, "{", "|", "}", "~"}

-----------------------------------------------------------------------------
(* Strings.                                                                *)

\* c in s, for a one-character c
Contains(s, c) == \E i \in 1..Len(s) : s[i] = c

\* the index of the first c in s (there is one)
FirstIndex(s, c) == CHOOSE i \in 1..Len(s) : s[i] = c /\ \A j \in 1..(i - 1) : s[j] # c

RECURSIVE split(_, _)
\* s.split(c): the pieces of s between the occurrences of c, empty pieces kept
split(s, c) ==
    IF ~Contains(s, c) THEN <<s>>
    ELSE LET i == FirstIndex(s, c)
         IN  <<SubSeq(s, 1, i - 1)>> \o split(SubSeq(s, i + 1, Len(s)), c)

\* s.translate(str.maketrans('', '', string.punctuation))
RemovePunctuation(s) == SelectSeq(s, LAMBDA ch : ch \notin punctuation)

\* str.casefold() of one character, on the letters the model uses
CasefoldChar(ch) ==
    CASE ch = "A" -> "a"
      [] ch = "B" -> "b"
      [] ch = "C" -> "c"
      [] ch = "D" -> "d"
      [] ch = "E" -> "e"
      [] ch = "L" -> "l"
      [] ch = "X" -> "x"
      [] OTHER -> ch

casefold(s) == [i \in 1..Len(s) |-> CasefoldChar(s[i])]

\* compare_text folding the case of the first text only
compare_text_HalfFolded(text1, text2) ==
    casefold(RemovePunctuation(text1)) = RemovePunctuation(text2)

compare_text(text1, text2) ==
    LET cleaned_text1 == RemovePunctuation(text1)
        cleaned_text2 == RemovePunctuation(text2)
    IN  casefold(cleaned_text1) = casefold(cleaned_text2)

\* AnyAlternative returning from the loop at its first iteration
AnyAlternativeFirstOnly(correct_answers, i, resp) ==
    i <= Len(correct_answers) /\ compare_text(correct_answers[i], resp)

RECURSIVE AnyAlternative(_, _, _)
\* the for loop of check_answer from the i-th alternative on: True at the first
\* alternative that compares equal, False when the list is exhausted
AnyAlternative(correct_answers, i, resp) ==
    IF i > Len(correct_answers) THEN FALSE
    ELSE IF compare_text(correct_answers[i], resp) THEN TRUE
    ELSE AnyAlternative(correct_answers, i + 1, resp)

check_answer(answer, resp) ==
    IF Contains(answer, ";")
    THEN AnyAlternative(split(answer, ";"), 1, resp)
    ELSE compare_text(answer, resp)

Digits == <<"0", "1", "2", "3", "4", "5", "6", "7", "8", "9">>

RECURSIVE str(_)
\* '{}'.format(n) for an integer n >= 0: its decimal digits
str(n) == IF n < 10 THEN <<Digits[n + 1]>> ELSE str(n \div 10) \o <<Digits[(n % 10) + 1]>>

-----------------------------------------------------------------------------
(* Messages.  A reply is its text, a sequence of literal fragments and     *)
(* characters, and its reply_markup (<<>> when there is none).             *)

Reply(text) == [text |-> text, reply_markup |-> <<>>]

MsgCorrect == Reply(<<"Correct!">>)

MsgAlternatives == Reply(<<"Do not forget that there are alternative answers!">>)

\* MsgWrong naming only the first alternative
MsgWrongFirst(answer_text) ==
    Reply(<<"The correct answer was ", DQUOTE>> \o split(answer_text, ";")[1] \o <<DQUOTE, ".">>)

MsgWrong(answer_text) ==
    Reply(<<"The correct answer was ", DQUOTE>> \o answer_text \o <<DQUOTE, ".">>)

MsgWillAsk(n) == Reply(<<"I will now ask you ">> \o str(n) \o <<" questions.">>)

MsgScored(correct, n) ==
    Reply(<<"You scored ">> \o str(correct) \o <<" out of ">> \o str(n) \o <<".">>)

MsgTryAgain == Reply(<<"To try again, just /start.">>)

MsgHelp == Reply(<<"Help!">>)

MsgChoose(quiz_keyboard) ==
    [text |-> <<"Choose the questions that you want to be tested on.">>,
     reply_markup |-> quiz_keyboard]

\* send_greeting: the greeting for the hour of the day (the Japanese texts
\* are written in Latin letters here)
Greeting(hour) ==
    IF hour < 11 THEN Reply(<<"ohayou">>)
    ELSE IF hour < 19 THEN Reply(<<"konnichiwa">>)
    ELSE Reply(<<"konbanwa">>)

-----------------------------------------------------------------------------
(* The state a handler works on: sigma = [questions, dicts, user_data,     *)
(* out, err].  A step after an exception does nothing.                     *)

Raise(s, e) == [s EXCEPT !.err = e]

reply_text(s, msg) == [s EXCEPT !.out = Append(@, msg)]

\* SetUserData with one dict for all users instead of context.user_data
SetUserDataShared(s, u, key, value) ==
    [s EXCEPT !.user_data = [v \in DOMAIN @ |-> (key :> value) @@ @[v]]]

\* context.user_data[key] = value, in the handler of user u
SetUserData(s, u, key, value) ==
    [s EXCEPT !.user_data[u] = (key :> value) @@ @]

\* PopUserData removing nothing
PopUserDataNothing(s, u, key) == s

\* context.user_data.pop(key), for a key that is present
PopUserData(s, u, key) ==
    [s EXCEPT !.user_data[u] = [k \in (DOMAIN @) \ {key} |-> @[k]]]

-----------------------------------------------------------------------------
(* The configuration: what toml.load("genki1.toml") returns.  A set name   *)
(* is a string; an entry is a dict with the keys japanese and english.     *)

L1 == <<"L", "1">>

L2 == <<"L", "2">>

\* the order of the tables in the file (the order of questions.keys())
SetOrder == <<L1, L2>>

Entry(japanese, english) == [japanese |-> japanese, english |-> english]

\* the entries of the file, by the address the loaded dict gets
LoadedDicts ==
    <<Entry(<<"a">>, <<"b">>),
      Entry(<<"c">>, <<"d", ";", "e">>),
      Entry(<<"c">>, <<"b">>)>>

\* a file with the single set L1
ConfigOne ==
    [questions |-> (L1 :> <<1, 2>>),
     dicts |-> [a \in {1, 2} |-> LoadedDicts[a]]]

\* a file with the sets L1 and L2
ConfigTwo ==
    [questions |-> (L1 :> <<1, 2>>) @@ (L2 :> <<3>>),
     dicts |-> [a \in {1, 2, 3} |-> LoadedDicts[a]]]

Configs == {ConfigOne, ConfigTwo}

\* the number of updates a run handles
MaxEvents == 4

Users == {"A", "B"}

\* the hours at which an update arrives
Hours == {10, 11, 19}

\* the texts users send
Texts == {L1, L2, <<"b">>, <<"D", "!">>, <<"x">>}

-----------------------------------------------------------------------------
(* choose_questions.  random.shuffle and random.choice may return any of   *)
(* their values, so the function has a set of outcomes.                    *)

Range(f) == {f[i] : i \in DOMAIN f}

Min(a, b) == IF a < b THEN a ELSE b

\* lst[:n] for n >= 0
Slice(lst, n) == SubSeq(lst, 1, Min(n, Len(lst)))

\* the orders random.shuffle(lst) can leave lst in
Shuffles(lst) == {[i \in 1..Len(lst) |-> lst[p[i]]] : p \in Permutations(1..Len(lst))}

\* the body of the for loop for one entry, given the two random draws
AssignQuestion(question, question_type, question_text) ==
    ("answer_text" :> (IF question_type = "japanese"
                       THEN question["english"] ELSE question["japanese"]))
    @@ ("question_text" :> question_text)
    @@ ("question_type" :> question_type)
    @@ question

\* what random.choice(possible_questions) can return, or the text itself
QuestionTexts(text) ==
    IF Contains(text, ";") THEN Range(split(text, ";")) ELSE {text}

\* the dicts the loop body can leave at one address
QuestionOutcomes(question) ==
    UNION {{AssignQuestion(question, question_type, question_text) :
                question_text \in QuestionTexts(question[question_type])} :
           question_type \in {"japanese", "english"}}

RECURSIVE ChooseLoop(_, _, _)
\* the heaps the for loop can leave, from the idx-th chosen entry on
ChooseLoop(heap, chosen_questions, idx) ==
    IF idx > Len(chosen_questions) THEN {heap}
    ELSE UNION {ChooseLoop([heap EXCEPT ![chosen_questions[idx]] = q], chosen_questions, idx + 1) :
                q \in QuestionOutcomes(heap[chosen_questions[idx]])}

\* choose_questions(questions[name], num_questions): the list questions[name]
\* is shuffled in place, its first num_questions entries are written to, and a
\* new list of their addresses is returned
choose_questions(s, name, num_questions) ==
    UNION {LET chosen_questions == Slice(shuffled, num_questions)
           IN  {[s |-> [s EXCEPT !.questions[name] = shuffled, !.dicts = heap],
                 chosen_questions |-> chosen_questions] :
                heap \in ChooseLoop(s.dicts, chosen_questions, 1)} :
           shuffled \in Shuffles(s.questions[name])}

-----------------------------------------------------------------------------
(* The handlers.  Each takes the state and returns the states it can end   *)
(* in (one state, where nothing is random).                                *)

ask_question(s, u) ==
    LET quiz_questions == s.user_data[u][QUESTIONS_KEY]
        question_num == s.user_data[u][QUESTION_NUM_KEY]
    IN  IF question_num >= Len(quiz_questions) THEN Raise(s, "IndexError")
        ELSE reply_text(s, Reply(s.dicts[quiz_questions[question_num + 1]]["question_text"]))

\* ResetCounters keeping the score of an earlier quiz
ResetCountersKeepScore(s, u) ==
    IF NUM_CORRECT_KEY \in DOMAIN s.user_data[u]
    THEN SetUserData(s, u, QUESTION_NUM_KEY, 0)
    ELSE SetUserData(SetUserData(s, u, QUESTION_NUM_KEY, 0), u, NUM_CORRECT_KEY, 0)

\* the assignments to question_num and correct in start_quiz
ResetCounters(s, u) ==
    SetUserData(SetUserData(s, u, QUESTION_NUM_KEY, 0), u, NUM_CORRECT_KEY, 0)

start_quiz(s, u, name) ==
    IF name \notin DOMAIN s.questions THEN {Raise(s, "KeyError")}
    ELSE {LET s1 == SetUserData(c.s, u, QUIZ_NAME_KEY, name)
              s2 == SetUserData(s1, u, QUESTIONS_KEY, c.chosen_questions)
              s3 == ResetCounters(s2, u)
              s4 == reply_text(s3, MsgWillAsk(Len(c.chosen_questions)))
          IN  ask_question(s4, u) :
          c \in choose_questions(s, name, NUM_QUESTIONS)}

\* Keys stopping after the first set name
KeysFirstOnly(qs) == SubSeq(SelectSeq(SetOrder, LAMBDA n : n \in DOMAIN qs), 1, 1)

\* [*questions.keys()]
Keys(qs) == SelectSeq(SetOrder, LAMBDA n : n \in DOMAIN qs)

start(s, u, hour) ==
    LET s1 == reply_text(s, Greeting(hour))
        question_sets == Keys(s1.questions)
        s2 == IF QUIZ_NAME_KEY \in DOMAIN s1.user_data[u]
              THEN PopUserData(s1, u, QUIZ_NAME_KEY) ELSE s1
    IN  IF Len(question_sets) = 1
        THEN start_quiz(s2, u, question_sets[1])
        ELSE LET quiz_keyboard == [i \in 1..Len(question_sets) |-> <<question_sets[i]>>]
             IN  {reply_text(s2, MsgChoose(quiz_keyboard))}

help_command(s, u) == {reply_text(s, MsgHelp)}

\* end_quiz reporting the configured number of questions instead of the
\* length of the user's question list
end_quiz_OutOfNumQuestions(s, u) ==
    LET correct == s.user_data[u][NUM_CORRECT_KEY]
        s1 == reply_text(s, MsgScored(correct, NUM_QUESTIONS))
        s2 == reply_text(s1, MsgTryAgain)
    IN  IF QUIZ_NAME_KEY \in DOMAIN s2.user_data[u]
        THEN PopUserData(s2, u, QUIZ_NAME_KEY) ELSE s2

end_quiz(s, u) ==
    LET correct == s.user_data[u][NUM_CORRECT_KEY]
        qs == s.user_data[u][QUESTIONS_KEY]
        s1 == reply_text(s, MsgScored(correct, Len(qs)))
        s2 == reply_text(s1, MsgTryAgain)
    IN  IF QUIZ_NAME_KEY \in DOMAIN s2.user_data[u]
        THEN PopUserData(s2, u, QUIZ_NAME_KEY) ELSE s2

\* HasAlternatives with the reminder sent after every correct answer
HasAlternativesAlways(answer_text) == TRUE

\* ';' in answer_text, the condition of the reminder
HasAlternatives(answer_text) == Contains(answer_text, ";")

\* the value the new question_num is compared with: len(questions), where
\* `questions` is the module's global, the dict of the vocabulary sets
QuizLength(s, u) == Cardinality(DOMAIN s.questions)

\* Judge adding two to the score for a correct answer
JudgeCountsTwice(s, u, answer_text, is_correct) ==
    IF is_correct
    THEN LET s1 == reply_text(s, MsgCorrect)
             s2 == SetUserData(s1, u, NUM_CORRECT_KEY, s1.user_data[u][NUM_CORRECT_KEY] + 2)
         IN  IF HasAlternatives(answer_text) THEN reply_text(s2, MsgAlternatives) ELSE s2
    ELSE reply_text(s, MsgWrong(answer_text))

\* the if/else on is_correct
Judge(s, u, answer_text, is_correct) ==
    IF is_correct
    THEN LET s1 == reply_text(s, MsgCorrect)
             s2 == SetUserData(s1, u, NUM_CORRECT_KEY, s1.user_data[u][NUM_CORRECT_KEY] + 1)
         IN  IF HasAlternatives(answer_text) THEN reply_text(s2, MsgAlternatives) ELSE s2
    ELSE reply_text(s, MsgWrong(answer_text))

\* NoActiveQuiz testing for the question list instead of the quiz name
NoActiveQuizByQuestions(s, u) == QUESTIONS_KEY \notin DOMAIN s.user_data[u]

\* QUIZ_NAME_KEY not in context.user_data
NoActiveQuiz(s, u) == QUIZ_NAME_KEY \notin DOMAIN s.user_data[u]

check_response(s, u, text) ==
    IF NoActiveQuiz(s, u) THEN start_quiz(s, u, text)
    ELSE LET question_num == s.user_data[u][QUESTION_NUM_KEY]
             quiz_questions == s.user_data[u][QUESTIONS_KEY]
         IN  IF question_num >= Len(quiz_questions) THEN {Raise(s, "IndexError")}
             ELSE LET question == s.dicts[quiz_questions[question_num + 1]]
                      answer_text == question["answer_text"]
                      is_correct == check_answer(answer_text, text)
                      s1 == Judge(s, u, answer_text, is_correct)
                      s2 == SetUserData(s1, u, QUESTION_NUM_KEY, question_num + 1)
                  IN  IF question_num + 1 = QuizLength(s2, u)
                      THEN {end_quiz(s2, u)}
                      ELSE {ask_question(s2, u)}

-----------------------------------------------------------------------------
(* The bot: any user may send /start, /help or a text at any time.         *)

Sigma == [questions |-> questions, dicts |-> dicts, user_data |-> user_data,
          out |-> <<>>, err |-> "none"]

Commit(s) ==
    /\ questions' = s.questions
    /\ dicts' = s.dicts
    /\ user_data' = s.user_data
    /\ out' = s.out
    /\ err' = s.err

EmptyDict == [k \in {} |-> 0]

InitBot(c) ==
    /\ questions = c.questions
    /\ dicts = c.dicts
    /\ user_data = [u \in Users |-> EmptyDict]
    /\ out = <<>>
    /\ err = "none"
    /\ lastUser = "none"
    /\ lastEvent = "none"
    /\ lastText = <<>>
    /\ nevents = 0

\* no call of check_answer on its own
InitNoCmp ==
    /\ correct_answer = <<>>
    /\ response = <<>>
    /\ result = "none"

\* no call of choose_questions on its own
InitNoSel ==
    /\ arg_num_questions = 0
    /\ ret_chosen_questions = <<>>

Init ==
    /\ \E c \in Configs : InitBot(c)
    /\ InitNoCmp
    /\ InitNoSel

\* one more update is handled
Handled == nevents < MaxEvents /\ nevents' = nevents + 1

Start(u) ==
    /\ Handled
    /\ \E hour \in Hours : \E s \in start(Sigma, u, hour) : Commit(s)
    /\ lastUser' = u
    /\ lastEvent' = "start"
    /\ UNCHANGED <<lastText, cmpVars, selVars>>

Help(u) ==
    /\ Handled
    /\ \E s \in help_command(Sigma, u) : Commit(s)
    /\ lastUser' = u
    /\ lastEvent' = "help"
    /\ UNCHANGED <<lastText, cmpVars, selVars>>

Text(u) ==
    /\ Handled
    /\ \E text \in Texts :
        /\ \E s \in check_response(Sigma, u, text) : Commit(s)
        /\ lastText' = text
    /\ lastUser' = u
    /\ lastEvent' = "text"
    /\ UNCHANGED <<cmpVars, selVars>>

Next == \E u \in Users : Start(u) \/ Help(u) \/ Text(u)

Spec == Init /\ [][Next]_vars

-----------------------------------------------------------------------------
(* check_answer on its own: every expected answer and response over a      *)
(* small alphabet with letters of both cases, the delimiter, another       *)
(* punctuation character and the space.                                    *)

Alphabet == {"a", "A", "b", ";", "!", " "}

MaxAnswerLen == 3

MaxResponseLen == 2

Strings(n) == UNION {[1..k -> Alphabet] : k \in 0..n}

InitCmp ==
    /\ InitBot(ConfigOne)
    /\ correct_answer \in Strings(MaxAnswerLen)
    /\ response \in Strings(MaxResponseLen)
    /\ result = "none"
    /\ InitNoSel

CheckAnswer ==
    /\ result = "none"
    /\ result' = IF check_answer(correct_answer, response) THEN "True" ELSE "False"
    /\ UNCHANGED <<botVars, correct_answer, response, selVars>>

NextCmp == CheckAnswer

SpecCmp == InitCmp /\ [][NextCmp]_vars

-----------------------------------------------------------------------------
(* choose_questions on its own: a set of 1 to MaxSetSize entries and every *)
(* number of questions from 1 to its size.  The second entry has two       *)
(* variants on its english side.  The third has one english text, written  *)
(* either plainly or with a delimiter after it, which toml.load accepts    *)
(* like any other string.                                                  *)

MaxSetSize == 5

SelEntry(i, trailing) ==
    CASE i = 2 -> Entry(<<"c">>, <<"d", ";", "e">>)
      [] i = 3 -> Entry(<<"f">>, IF trailing THEN <<"g", ";">> ELSE <<"g">>)
      [] OTHER -> Entry(<<"j">> \o str(i), <<"e">> \o str(i))

\* a file with the single set L1 of the first k entries
SelConfig(k, trailing) ==
    [questions |-> (L1 :> [i \in 1..k |-> i]),
     dicts |-> [i \in 1..k |-> SelEntry(i, trailing)]]

InitSel ==
    /\ \E k \in 1..MaxSetSize : \E trailing \in BOOLEAN :
        /\ InitBot(SelConfig(k, trailing))
        /\ arg_num_questions \in 1..k
    /\ ret_chosen_questions = <<>>
    /\ InitNoCmp

ChooseQuestions ==
    /\ ret_chosen_questions = <<>>
    /\ \E c \in choose_questions(Sigma, L1, arg_num_questions) :
        /\ questions' = c.s.questions
        /\ dicts' = c.s.dicts
        /\ ret_chosen_questions' = c.chosen_questions
    /\ UNCHANGED <<user_data, out, err, lastUser, lastEvent, lastText, nevents,
                   cmpVars, arg_num_questions>>

NextSel == ChooseQuestions

SpecSel == InitSel /\ [][NextSel]_vars

-----------------------------------------------------------------------------
(* Properties.  A session is user_data[u]; activeQuizName is the key       *)
(* quiz_name, position is question_num, correctCount is correct.           *)

Active(ud) == QUIZ_NAME_KEY \in DOMAIN ud

\* the latest step handled a text of user u who had an active quiz
AnswerStep(u) == lastUser' = u /\ lastEvent' = "text" /\ Active(user_data[u])

\* the score summary of user u is among the replies
SummarySent(u, replies, ud) ==
    /\ MsgScored(ud[NUM_CORRECT_KEY], Len(ud[QUESTIONS_KEY])) \in Range(replies)
    /\ MsgTryAgain \in Range(replies)

C1_Step ==
    \A u \in Users :
        AnswerStep(u) =>
            LET batch == user_data[u][QUESTIONS_KEY]
                position == user_data'[u][QUESTION_NUM_KEY]
                completed == ~Active(user_data'[u]) /\ SummarySent(u, out', user_data'[u])
            IN  /\ position = user_data[u][QUESTION_NUM_KEY] + 1
                /\ completed <=> position = Len(batch)
                /\ position # Len(batch) =>
                       /\ err' = "none"
                       /\ out' # <<>>
                       /\ out'[Len(out')] = Reply(dicts'[batch[position + 1]]["question_text"])

\* C1: every text handled while a quiz is active increments position by one;
\* the quiz completes (summary sent, quiz_name removed) exactly when the new
\* position is the length of the session's own question list, and otherwise
\* the prompt of questions[position] is sent.
C1_EvaluatesWholeBatch == [][C1_Step]_vars

\* what a session holds: its keys and the entries its question list refers to
SessionView(ud, heap) ==
    [session |-> ud,
     batch |-> IF QUESTIONS_KEY \in DOMAIN ud
               THEN [i \in 1..Len(ud[QUESTIONS_KEY]) |-> heap[ud[QUESTIONS_KEY][i]]]
               ELSE <<>>]

C2_Step ==
    \A a \in Users :
        a # lastUser' => SessionView(user_data'[a], dicts') = SessionView(user_data[a], dicts)

\* C2: handling an update of one user leaves every field of every other
\* user's session unchanged, the question_type, question_text and
\* answer_text of each of its questions included.
C2_OtherSessionsUntouched == [][C2_Step]_vars

\* the position and the score of a session, as far as they are set
Counters(ud) == [k \in DOMAIN ud \cap {QUESTION_NUM_KEY, NUM_CORRECT_KEY} |-> ud[k]]

C3_Step ==
    \A a \in Users : a # lastUser' => Counters(user_data'[a]) = Counters(user_data[a])

\* C3: a user's question_num and correct change only in the handlers of
\* that user's own updates.
C3_CountersOwnedByUser == [][C3_Step]_vars

\* C3 witness: B has answered and scored while A's quiz is active and
\* still at its first question.
C3_Witness ==
    /\ lastUser = "B" /\ lastEvent = "text"
    /\ NUM_CORRECT_KEY \in DOMAIN user_data["B"] /\ user_data["B"][NUM_CORRECT_KEY] = 1
    /\ Active(user_data["A"])
    /\ user_data["A"][QUESTION_NUM_KEY] = 0 /\ user_data["A"][NUM_CORRECT_KEY] = 0

\* C4: the loaded vocabulary sets never change: every set keeps its
\* entries, in the order and with the contents they were loaded with.
C4_StoreNeverMutated == \E c \in Configs : questions = c.questions /\ dicts = c.dicts

C5_Step ==
    \A u \in Users :
        (/\ lastUser' = u /\ lastEvent' = "text"
         /\ ~Active(user_data[u])
         /\ lastText' \notin DOMAIN questions)
        => /\ err' = "none"
           /\ out' # <<>>
           /\ ~Active(user_data'[u])

\* C5: a text that names no vocabulary set, sent with no active quiz, is
\* handled without an unhandled exception, is answered with a reply, and
\* leaves the session without an active quiz.
C5_UnknownSetHandled == [][C5_Step]_vars

RECURSIVE Normalized(_)
\* a string with its punctuation removed and its case folded
Normalized(t) ==
    IF t = <<>> THEN <<>>
    ELSE IF Head(t) \in punctuation THEN Normalized(Tail(t))
    ELSE <<CasefoldChar(Head(t))>> \o Normalized(Tail(t))

\* C6: whenever the expected answer and the response are equal after
\* punctuation removal and case folding, check_answer returns True.
C6_NormalizedEqualIsCorrect ==
    (result # "none" /\ Normalized(correct_answer) = Normalized(response))
    => result = "True"

\* C6 as amended: the same, for an expected answer without the delimiter.
C6_NormalizedEqualIsCorrectUndelimited ==
    (/\ result # "none"
     /\ ~Contains(correct_answer, ";")
     /\ Normalized(correct_answer) = Normalized(response))
    => result = "True"

\* C6 witness: an expected answer with punctuation and a capital letter is
\* matched by a response that has neither.
C6_Witness ==
    /\ correct_answer = <<"A", "!", "b">>
    /\ response = <<"a", "b">>
    /\ result = "True"

\* the delimiter-separated alternatives of a string: its maximal pieces
\* without a delimiter, as a set
Alternatives(t) ==
    {SubSeq(t, i, j) : <<i, j>> \in
        {ij \in (1..(Len(t) + 1)) \X (0..Len(t)) :
            /\ ij[2] >= ij[1] - 1
            /\ \A k \in ij[1]..ij[2] : t[k] # ";"
            /\ (ij[1] = 1 \/ t[ij[1] - 1] = ";")
            /\ (ij[2] = Len(t) \/ t[ij[2] + 1] = ";")}}

\* C7: for an expected answer with the delimiter, check_answer returns True
\* exactly when the response equals, after punctuation removal and case
\* folding, one of the alternatives, whatever their order.
C7_AnyAlternativeIsCorrect ==
    (result # "none" /\ Contains(correct_answer, ";"))
    => (result = "True" <=>
            \E alt \in Alternatives(correct_answer) : Normalized(alt) = Normalized(response))

\* C7 witness: the response matches the second alternative only.
C7_Witness ==
    /\ correct_answer = <<"b", ";", "A">>
    /\ response = <<"a", "!">>
    /\ result = "True"

\* the latest step is a handler of user u that calls start_quiz(name) for a
\* configured set and returns normally
StartQuizStep(u, name) ==
    /\ lastUser' = u
    /\ name \in DOMAIN questions
    /\ \/ lastEvent' = "start" /\ DOMAIN questions = {name}
       \/ lastEvent' = "text" /\ ~Active(user_data[u]) /\ lastText' = name
    /\ err' = "none"

C8_Step ==
    \A u \in Users : \A name \in DOMAIN questions :
        StartQuizStep(u, name) =>
            LET ud == user_data'[u]
            IN  /\ DOMAIN ud = {QUIZ_NAME_KEY, QUESTIONS_KEY, QUESTION_NUM_KEY, NUM_CORRECT_KEY}
                /\ ud[QUIZ_NAME_KEY] = name
                /\ ud[QUESTION_NUM_KEY] = 0
                /\ ud[NUM_CORRECT_KEY] = 0
                /\ Len(ud[QUESTIONS_KEY]) > 0
                /\ ud[QUESTIONS_KEY] = SubSeq(questions'[name], 1, Len(ud[QUESTIONS_KEY]))
                /\ Len(out') >= 2
                /\ out'[Len(out') - 1] =
                       Reply(<<"I will now ask you ">> \o str(Len(ud[QUESTIONS_KEY]))
                             \o <<" questions.">>)
                /\ out'[Len(out')] = Reply(dicts'[ud[QUESTIONS_KEY][1]]["question_text"])

\* C8: every start_quiz that returns normally leaves the session with
\* quiz_name = the set's name, question_num = 0, correct = 0 and the
\* question list just selected (the head of the set as just shuffled), and
\* its last two replies are "I will now ask you N questions.", N the length
\* of that list, and the prompt of its first question, whatever an earlier
\* quiz left behind.
C8_StartQuizResets == [][C8_Step]_vars

\* C8 witness: a quiz started by /start as the third update of a user, in
\* a run where the other user has sent nothing.
C8_Witness ==
    /\ lastEvent = "start" /\ lastUser = "A" /\ err = "none"
    /\ nevents = 3
    /\ user_data["B"] = EmptyDict
    /\ Active(user_data["A"])
    /\ user_data["A"][QUESTION_NUM_KEY] = 0

\* the latest step judged a text of user u against the current question
JudgedStep(u) ==
    /\ AnswerStep(u)
    /\ user_data[u][QUESTION_NUM_KEY] < Len(user_data[u][QUESTIONS_KEY])

\* the expected answer of the current question of user u
ExpectedAnswer(u) ==
    dicts[user_data[u][QUESTIONS_KEY][user_data[u][QUESTION_NUM_KEY] + 1]]["answer_text"]

C9_StepVerbatim ==
    \A u \in Users :
        (JudgedStep(u) /\ ~check_answer(ExpectedAnswer(u), lastText')) =>
            /\ user_data'[u][NUM_CORRECT_KEY] = user_data[u][NUM_CORRECT_KEY]
            /\ out' # <<>>
            /\ out'[1] = Reply(ExpectedAnswer(u))

\* C9: an incorrect answer leaves correct unchanged and the reply is the
\* expected answer text itself, whole and unformatted.
C9_WrongAnswerEchoedVerbatim == [][C9_StepVerbatim]_vars

C9_StepQuoted ==
    \A u \in Users :
        (JudgedStep(u) /\ ~check_answer(ExpectedAnswer(u), lastText')) =>
            /\ user_data'[u][NUM_CORRECT_KEY] = user_data[u][NUM_CORRECT_KEY]
            /\ out' # <<>>
            /\ out'[1] = Reply(<<"The correct answer was ", DQUOTE>>
                               \o ExpectedAnswer(u) \o <<DQUOTE, ".">>)

\* C9 as amended: an incorrect answer leaves correct unchanged and the reply
\* is 'The correct answer was "E".', E being the expected answer text whole
\* and unsplit.
C9_WrongAnswerQuotedWhole == [][C9_StepQuoted]_vars

\* C9 witness: a wrong answer to a question whose expected answer has two
\* alternatives, both quoted in the reply.
C9_Witness ==
    /\ lastEvent = "text"
    /\ out # <<>>
    /\ out[1] = Reply(<<"The correct answer was ", DQUOTE, "d", ";", "e", DQUOTE, ".">>)
    /\ user_data[lastUser][NUM_CORRECT_KEY] = 0

C10_Step ==
    \A u \in Users :
        (JudgedStep(u) /\ check_answer(ExpectedAnswer(u), lastText')) =>
            /\ user_data'[u][NUM_CORRECT_KEY] = user_data[u][NUM_CORRECT_KEY] + 1
            /\ out' # <<>>
            /\ out'[1] = Reply(<<"Correct!">>)
            /\ (Reply(<<"Do not forget that there are alternative answers!">>) \in Range(out'))
               <=> Contains(ExpectedAnswer(u), ";")

\* C10: a correct answer is replied to with "Correct!", increments correct
\* by exactly one, and is followed by the reminder of alternative answers
\* exactly when the expected answer contains ';'.
C10_CorrectAnswerCounted == [][C10_Step]_vars

\* C10 witness: a correct answer to a question with two alternatives.
C10_Witness ==
    /\ lastEvent = "text" /\ lastText = <<"D", "!">>
    /\ Len(out) >= 2
    /\ out[1] = Reply(<<"Correct!">>)
    /\ out[2] = Reply(<<"Do not forget that there are alternative answers!">>)
    /\ user_data[lastUser][NUM_CORRECT_KEY] = 1

C11_Step ==
    \A u \in Users :
        (AnswerStep(u) /\ (MsgTryAgain \in Range(out') \/ ~Active(user_data'[u]))) =>
            LET batch == user_data[u][QUESTIONS_KEY]
                judged == JudgedStep(u) /\ check_answer(ExpectedAnswer(u), lastText')
                c == user_data[u][NUM_CORRECT_KEY] + (IF judged THEN 1 ELSE 0)
            IN  /\ Len(out') >= 2
                /\ out'[Len(out') - 1] =
                       Reply(<<"You scored ">> \o str(c) \o <<" out of ">>
                             \o str(Len(batch)) \o <<".">>)
                /\ out'[Len(out')] = Reply(<<"To try again, just /start.">>)
                /\ user_data'[u][NUM_CORRECT_KEY] = c
                /\ user_data'[u][QUESTIONS_KEY] = batch
                /\ ~Active(user_data'[u])

\* C11: when a quiz completes, the handler's last two replies are "You
\* scored c out of n.", c being the score so far plus one if this answer was
\* judged correct and n the length of the session's question list, and "To
\* try again, just /start."; quiz_name is removed when the handler returns,
\* so no state between handlers has the summary sent and the quiz active.
C11_SummaryThenIdle == [][C11_Step]_vars

\* C11 witness: a quiz of two questions has just completed with one answer
\* judged correct.
C11_Witness ==
    /\ lastEvent = "text"
    /\ Len(out) >= 2
    /\ out[Len(out) - 1] = Reply(<<"You scored ", "1", " out of ", "2", ".">>)
    /\ out[Len(out)] = Reply(<<"To try again, just /start.">>)
    /\ ~Active(user_data[lastUser])

\* C12: no quiz is started with fewer than NUM_QUESTIONS questions: a
\* set with fewer entries makes the selection fail instead, so every
\* question list a session holds has at least NUM_QUESTIONS entries.
C12_NoShortBatch ==
    \A u \in Users :
        QUESTIONS_KEY \in DOMAIN user_data[u] =>
            Len(user_data[u][QUESTIONS_KEY]) >= NUM_QUESTIONS

\* the question at address a reads as the claim says: a direction, a
\* non-empty prompt that is the prompt side or one of its variants, and the
\* whole other side, non-empty, as the expected answer
SelectedQuestionOk(q) ==
    /\ DOMAIN q = {"japanese", "english", "question_type", "question_text", "answer_text"}
    /\ q["question_type"] \in {"japanese", "english"}
    /\ LET promptSide == q[q["question_type"]]
           answerSide == IF q["question_type"] = "japanese"
                         THEN q["english"] ELSE q["japanese"]
       IN  /\ q["question_text"] # <<>>
           /\ q["answer_text"] # <<>>
           /\ q["question_text"] = promptSide
              \/ q["question_text"] \in Alternatives(promptSide)
           /\ q["answer_text"] = answerSide

\* the list returned holds as many entries as asked for, pairwise distinct
\* and of the set, and the set still has the entries it was loaded with
SelectionOk ==
    /\ Len(ret_chosen_questions) = arg_num_questions
    /\ \A i, j \in 1..Len(ret_chosen_questions) :
           ret_chosen_questions[i] = ret_chosen_questions[j] => i = j
    /\ Range(ret_chosen_questions) \subseteq Range(questions[L1])
    /\ Range(questions[L1]) = DOMAIN dicts
    /\ \E trailing \in BOOLEAN : \A a \in DOMAIN dicts :
           /\ dicts[a]["japanese"] = SelEntry(a, trailing)["japanese"]
           /\ dicts[a]["english"] = SelEntry(a, trailing)["english"]

\* C13: for every set and every n from 1 to its size, choose_questions
\* returns exactly n pairwise distinct entries of the set, each with a
\* non-empty prompt that is the prompt side or one of its ';'-separated
\* variants and with the whole other side, non-empty, as expected answer.
C13_SelectsDistinctNonEmpty ==
    ret_chosen_questions # <<>> =>
        /\ SelectionOk
        /\ \A i \in 1..Len(ret_chosen_questions) : SelectedQuestionOk(dicts[ret_chosen_questions[i]])

\* no side of the entry is empty or has an empty variant
EntryWellFormed(q) ==
    /\ <<>> \notin Alternatives(q["japanese"])
    /\ <<>> \notin Alternatives(q["english"])

\* C13 on the sets toml.load can return whose entries have no empty side
\* and no empty variant: there the selection is as C13 says.
C13_SelectsDistinctNonEmptyIfWellFormed ==
    (ret_chosen_questions # <<>> /\ \A a \in DOMAIN dicts : EntryWellFormed(dicts[a])) =>
        /\ SelectionOk
        /\ \A i \in 1..Len(ret_chosen_questions) : SelectedQuestionOk(dicts[ret_chosen_questions[i]])

\* a reply that judges an answer
IsJudgement(msg) ==
    \/ msg = Reply(<<"Correct!">>)
    \/ Len(msg.text) > 0 /\ msg.text[1] = "The correct answer was "

C14_Step ==
    \A u \in Users :
        (lastUser' = u /\ lastEvent' = "text" /\ ~Active(user_data[u])) =>
            /\ err' # "IndexError"
            /\ \A i \in 1..Len(out') : ~IsJudgement(out'[i])
            /\ IF lastText' \in DOMAIN questions
               THEN /\ Active(user_data'[u])
                    /\ user_data'[u][QUIZ_NAME_KEY] = lastText'
                    /\ user_data'[u][QUESTION_NUM_KEY] = 0
                    /\ user_data'[u][NUM_CORRECT_KEY] = 0
                    /\ user_data'[u][QUESTION_NUM_KEY] < Len(user_data'[u][QUESTIONS_KEY])
               ELSE /\ ~Active(user_data'[u])
                    /\ Counters(user_data'[u]) = Counters(user_data[u])

\* C14: a text of a user without quiz_name (no user_data yet, or a quiz
\* that completed or was abandoned) is never judged as an answer and never
\* indexes the question list: no judging reply, no IndexError, no counter
\* incremented; it is taken as a set choice, and when it names a configured
\* set the session is in progress on that set, at its first question.
C14_IdleTextIsSetChoice == [][C14_Step]_vars

\* C14 witness: in the file with the single set L1, the only user who has
\* sent anything starts a quiz with the third update by sending the text L1
\* (quiz_name was absent: it is set only by start_quiz, and /start with one
\* set would have left it set).
C14_Witness ==
    /\ lastEvent = "text" /\ lastText = L1 /\ lastUser = "A"
    /\ nevents = 3
    /\ DOMAIN questions = {L1}
    /\ user_data["B"] = EmptyDict
    /\ Active(user_data["A"])
    /\ user_data["A"][QUIZ_NAME_KEY] = L1
    /\ out # <<>>
    /\ out[1] = Reply(<<"I will now ask you ", "2", " questions.">>)

\* the response with one space added at its start or at its end
Padded(r) == {<<" ">> \o r, r \o <<" ">>}

\* C15: a space added at the start or the end of the response does not
\* change what check_answer returns.
C15_WhitespaceIgnored ==
    result # "none" =>
        \A padded \in Padded(response) :
            check_answer(correct_answer, padded) <=> result = "True"

\* C16: between handlers, a session with quiz_name set has question_num <
\* the length of its question list, so its current question exists.
C16_ActiveHasCurrentQuestion ==
    \A u \in Users :
        Active(user_data[u]) =>
            user_data[u][QUESTION_NUM_KEY] < Len(user_data[u][QUESTIONS_KEY])

\* C17: every session whose quiz keys are set has
\* 0 <= correct <= question_num <= the length of its question list.
C17_CountersInRange ==
    \A u \in Users :
        QUESTION_NUM_KEY \in DOMAIN user_data[u] =>
            /\ {QUESTIONS_KEY, NUM_CORRECT_KEY} \subseteq DOMAIN user_data[u]
            /\ 0 <= user_data[u][NUM_CORRECT_KEY]
            /\ user_data[u][NUM_CORRECT_KEY] <= user_data[u][QUESTION_NUM_KEY]
            /\ user_data[u][QUESTION_NUM_KEY] <= Len(user_data[u][QUESTIONS_KEY])

\* C17 witness: a session that has answered both of its two questions
\* correctly, so that all three bounds are met with equality but the first.
C17_Witness ==
    \E u \in Users :
        /\ QUESTION_NUM_KEY \in DOMAIN user_data[u]
        /\ Len(user_data[u][QUESTIONS_KEY]) = 2
        /\ user_data[u][QUESTION_NUM_KEY] = 2
        /\ user_data[u][NUM_CORRECT_KEY] = 2

\* the names a single-choice keyboard offers, one per row
KeyboardNames(markup) == {markup[i][1] : i \in 1..Len(markup)}

C18_Step ==
    \A u \in Users :
        (lastUser' = u /\ lastEvent' = "start") =>
            /\ out' # <<>>
            /\ out'[1] \in {Reply(<<"ohayou">>), Reply(<<"konnichiwa">>), Reply(<<"konbanwa">>)}
            /\ IF Cardinality(DOMAIN questions) = 1
               THEN /\ err' = "none"
                    /\ Active(user_data'[u])
                    /\ {user_data'[u][QUIZ_NAME_KEY]} = DOMAIN questions
                    /\ user_data'[u][QUESTION_NUM_KEY] < Len(user_data'[u][QUESTIONS_KEY])
               ELSE /\ err' = "none"
                    /\ Len(out') = 2
                    /\ out'[2].text = <<"Choose the questions that you want to be tested on.">>
                    /\ Len(out'[2].reply_markup) = Cardinality(DOMAIN questions)
                    /\ \A i \in 1..Len(out'[2].reply_markup) : Len(out'[2].reply_markup[i]) = 1
                    /\ KeyboardNames(out'[2].reply_markup) = DOMAIN questions
                    /\ ~Active(user_data'[u])
                    /\ Counters(user_data'[u]) = Counters(user_data[u])
                    /\ questions' = questions
                    /\ dicts' = dicts

\* C18: /start first sends the greeting; with exactly one set the session
\* is in progress on that set when the handler returns; otherwise the only
\* other reply is one single-choice prompt with every set name once, no quiz
\* is started and the session has no quiz_name.
C18_StartGreetsThenStartsOrAsks == [][C18_Step]_vars

\* C18 witness: with two sets, /start has shown the keyboard L1, L2 to a
\* user who holds the question list of an earlier quiz.
C18_Witness ==
    /\ lastEvent = "start"
    /\ Len(out) = 2
    /\ out[2].reply_markup = <<<<L1>>, <<L2>>>>
    /\ QUESTIONS_KEY \in DOMAIN user_data[lastUser]
    /\ ~Active(user_data[lastUser])

C19_Step ==
    \A u \in Users :
        (lastUser' = u /\ lastEvent' = "start" /\ Active(user_data[u])) =>
            \/ ~Active(user_data'[u])
            \/ /\ Active(user_data'[u])
               /\ err' = "none"
               /\ Cardinality(DOMAIN questions) = 1
               /\ user_data'[u][QUESTION_NUM_KEY] = 0
               /\ user_data'[u][NUM_CORRECT_KEY] = 0
               /\ user_data'[u][QUESTIONS_KEY] =
                      SubSeq(questions'[user_data'[u][QUIZ_NAME_KEY]], 1,
                             Len(user_data'[u][QUESTIONS_KEY]))
               /\ out'[Len(out')] =
                      Reply(dicts'[user_data'[u][QUESTIONS_KEY][1]]["question_text"])

\* C19: /start during a quiz abandons it: when the handler returns either
\* quiz_name is absent, so that the next text is a set choice, or (one set
\* only) a new quiz has started, with position and score 0, a question list
\* selected by this very handler and its first prompt sent last, so that the
\* next text answers question 0 of the new list.
C19_StartAbandonsQuiz == [][C19_Step]_vars

\* C19 witness: with two sets, /start has left without quiz_name a session
\* that was at its second question of two (the quiz had not completed: that
\* takes two answers).
C19_Witness ==
    /\ lastEvent = "start"
    /\ Cardinality(DOMAIN questions) = 2
    /\ ~Active(user_data[lastUser])
    /\ QUESTIONS_KEY \in DOMAIN user_data[lastUser]
    /\ Len(user_data[lastUser][QUESTIONS_KEY]) = 2
    /\ user_data[lastUser][QUESTION_NUM_KEY] = 1

C20_Step ==
    \A u \in Users :
        AnswerStep(u) =>
            LET batch == user_data[u][QUESTIONS_KEY]
            IN  /\ err' # "IndexError"
                /\ user_data'[u][QUESTION_NUM_KEY] = user_data[u][QUESTION_NUM_KEY] + 1
                /\ user_data'[u][QUESTION_NUM_KEY] <= Len(batch)
                /\ user_data'[u][QUESTION_NUM_KEY] = Len(batch) =>
                       /\ MsgTryAgain \in Range(out')
                       /\ ~Active(user_data'[u])

\* C20: every quiz terminates: each text answered during a quiz advances
\* the position by one without an out-of-range index, and the answer that
\* brings the position to the length of the question list sends the
\* summary and removes quiz_name; so a quiz ends after as many answers as
\* it has questions.
C20_QuizTerminates == [][C20_Step]_vars

====
